---- MODULE Spec2Model ----
(***************************************************************************)
(* A model of the "Open in JavaScript Debug Terminal" editor extension     *)
(* (src/src/extension.ts): the directory resolver                          *)
(* (determineTargetDirectory, getParentDirectoryUri), the terminal         *)
(* acquisition chain (openJsDebugTerminalWithCwd) and the three command    *)
(* handlers registered by activate.                                        *)
(*                                                                         *)
(* Text is read one character at a time, so that the string manipulation   *)
(* of the source (regular expressions, path.dirname) is computed, not      *)
(* assumed.  Paths are POSIX paths.                                        *)
(***************************************************************************)
EXTENDS FiniteSets, Integers, Sequences, TLC

VARIABLES
    inv,              \* per invocation: the handler's position and locals
    calls,            \* per invocation: the host calls it made, in order (those
                      \* of the chain are kept until the handler resumes)
    terminals,        \* the host's terminals, in creation order
    activeTerminal,   \* vscode.window.activeTerminal: an index, 0 if none
    jsDebug,          \* the ms-vscode.js-debug extension: absent/inactive/active
    nativeListed,     \* is the native debug-terminal command in getCommands()
    rs,               \* the resolver's inputs and result (SpecResolve)
    scan,             \* a document, a cursor and what the scanner, the line
                      \* decorations and the cursor check made of them (SpecScan)
    hover             \* the settings and the applications of the hover option
                      \* (SpecHover)

vars == <<inv, calls, terminals, activeTerminal, jsDebug, nativeListed, rs, scan, hover>>

----------------------------------------------------------------------------
(* Bounds of the model *)

\* how many handler invocations may be in flight together
NumInvocations == 1
\* the longest locator path the resolver is tried on
MaxPathLen == 4
\* the most entries of the scripts mapping of a document
MaxEntries == 2
\* how many applications of the hover option are followed
MaxApplications == 3

----------------------------------------------------------------------------
(* Text: a TLA+ string, read one character at a time *)

\* the k-th character of s, as a string of length 1; "" outside s
Ch(s, k) == IF k \in 1..Len(s) THEN SubSeq(s, k, k) ELSE ""

StartsWith(p, q) == Len(p) >= Len(q) /\ SubSeq(p, 1, Len(q)) = q

\* the index of the first c of p at or after position from, 0 when none
IndexOfFrom(p, c, from) ==
    IF \E k \in from..Len(p) : Ch(p, k) = c
    THEN CHOOSE k \in from..Len(p) : Ch(p, k) = c /\ \A m \in from..(k-1) : Ch(p, m) # c
    ELSE 0

\* the index of the last c of p, 0 when there is none
LastIndexOf(p, c) ==
    IF \E k \in 1..Len(p) : Ch(p, k) = c
    THEN CHOOSE k \in 1..Len(p) : Ch(p, k) = c /\ \A m \in (k+1)..Len(p) : Ch(p, m) # c
    ELSE 0

----------------------------------------------------------------------------
(* Resource locators (vscode.Uri): scheme, authority, path *)

NoUri == [scheme |-> "none", authority |-> "", path |-> ""]

Uri(s, a, p) == [scheme |-> s, authority |-> a, path |-> p]

\* p.replace(/\/+$/, '')
StripTrailingSlashes(p) ==
    IF \E k \in 1..Len(p) : Ch(p, k) # "/"
    THEN SubSeq(p, 1, CHOOSE k \in 1..Len(p) :
                          Ch(p, k) # "/" /\ \A m \in (k+1)..Len(p) : Ch(p, m) = "/")
    ELSE ""

\* p.replace(/\/[^\/]+$/, ''): drops "/segment" from the end when p ends so
RemoveLastSegment(p) ==
    IF LastIndexOf(p, "/") > 0 /\ LastIndexOf(p, "/") < Len(p)
    THEN SubSeq(p, 1, LastIndexOf(p, "/") - 1)
    ELSE p

\* Node's path.posix.dirname
PosixDirname(p) ==
    IF Len(p) = 0 THEN "."
    ELSE LET hasRoot == Ch(p, 1) = "/"
             \* scanning down from the end to index 2: the first "/" that has a
             \* non-"/" character after it
             cand == {k \in 2..Len(p) :
                         Ch(p, k) = "/" /\ \E m \in (k+1)..Len(p) : Ch(p, m) # "/"}
             end  == IF cand = {} THEN 0
                     ELSE CHOOSE k \in cand : \A m \in cand : m <= k
         IN  IF end = 0 THEN (IF hasRoot THEN "/" ELSE ".")
             ELSE IF hasRoot /\ end = 2 THEN "//"
             ELSE SubSeq(p, 1, end - 1)

\* Node's path.posix.basename without a suffix: the last segment, trailing
\* separators ignored
PosixBasename(p) ==
    LET q == StripTrailingSlashes(p)
    IN  SubSeq(q, LastIndexOf(q, "/") + 1, Len(q))

\* vscode.Uri.file(path): a leading "//" names an authority; the path of the
\* result always starts with "/"
UriFile(p) ==
    LET unc  == StartsWith(p, "//")
        idx  == IndexOfFrom(p, "/", 3)
        auth == IF ~unc THEN ""
                ELSE IF idx = 0 THEN SubSeq(p, 3, Len(p))
                ELSE SubSeq(p, 3, idx - 1)
        rest == IF ~unc THEN p
                ELSE IF idx = 0 THEN "/"
                ELSE SubSeq(p, idx, Len(p))
        abs  == IF Len(rest) = 0 THEN "/"
                ELSE IF Ch(rest, 1) # "/" THEN "/" \o rest
                ELSE rest
    IN  Uri("file", auth, abs)

\* uri.fsPath on a POSIX host
FsPath(u) ==
    IF Len(u.authority) > 0 /\ Len(u.path) > 1 /\ u.scheme = "file"
    THEN "//" \o u.authority \o u.path
    ELSE u.path

\* uri.with({ path }): scheme and authority are kept
UriWithPath(u, p) == Uri(u.scheme, u.authority, p)

GetParentDirectoryUri_AlwaysLocal(u) ==
    UriFile(PosixDirname(u.path))

GetParentDirectoryUri(u) ==
    IF u.scheme = "file"
    THEN UriFile(PosixDirname(FsPath(u)))
    ELSE LET normalizedPath == StripTrailingSlashes(u.path)
             stripped == RemoveLastSegment(normalizedPath)
             parentPath == IF stripped = "" THEN "/" ELSE stripped
         IN  UriWithPath(u, parentPath)

----------------------------------------------------------------------------
(* The directory resolver *)

\* vscode.FileType: a bit mask (File 1, Directory 2, SymbolicLink 64)
FileTypeFile == 1
FileTypeDirectory == 2
FileTypeSymbolicLink == 64

\* what vscode.workspace.fs.stat can settle with: an error, or a type
StatThrows == [threw |-> TRUE, type |-> 0]
StatType(t) == [threw |-> FALSE, type |-> t]

StatTypes == {StatType(t) : t \in {0, FileTypeFile, FileTypeDirectory,
                                    FileTypeSymbolicLink + FileTypeFile,
                                    FileTypeSymbolicLink + FileTypeDirectory}}

\* resourceStats.type & vscode.FileType.Directory
IsDirectoryType(t) == (t \div FileTypeDirectory) % 2 = 1

Resolved(u) == [ok |-> TRUE, uri |-> u, err |-> "none"]
Failed(e) == [ok |-> FALSE, uri |-> NoUri, err |-> e]
Pending == [ok |-> FALSE, uri |-> NoUri, err |-> "pending"]

AfterStat_TreatsAllAsDirectory(contextResource, stat) ==
    IF stat.threw THEN Failed("StatFailed") ELSE Resolved(contextResource)

\* determineTargetDirectory, case 1, once the stat has settled
AfterStat(contextResource, stat) ==
    IF stat.threw THEN Failed("StatFailed")
    ELSE IF IsDirectoryType(stat.type) THEN Resolved(contextResource)
    ELSE Resolved(GetParentDirectoryUri(contextResource))

WithoutContext_FolderFirst(activeDocumentUri, workspaceFolders) ==
    IF Len(workspaceFolders) > 0 THEN Resolved(workspaceFolders[1])
    ELSE IF activeDocumentUri # NoUri THEN Resolved(GetParentDirectoryUri(activeDocumentUri))
    ELSE Failed("NoTarget")

WithoutContext_NeverFails(activeDocumentUri, workspaceFolders) ==
    IF activeDocumentUri # NoUri THEN Resolved(GetParentDirectoryUri(activeDocumentUri))
    ELSE IF Len(workspaceFolders) > 0 THEN Resolved(workspaceFolders[1])
    ELSE Resolved(Uri("file", "", "/"))

\* determineTargetDirectory, cases 2 and 3 and the final throw
WithoutContext(activeDocumentUri, workspaceFolders) ==
    IF activeDocumentUri # NoUri THEN Resolved(GetParentDirectoryUri(activeDocumentUri))
    ELSE IF Len(workspaceFolders) > 0 THEN Resolved(workspaceFolders[1])
    ELSE Failed("NoTarget")

\* determineTargetDirectory as a whole, given what the stat settles with
DetermineTargetDirectory(contextResource, stat, activeDocumentUri, workspaceFolders) ==
    IF contextResource # NoUri
    THEN AfterStat(contextResource, stat)
    ELSE WithoutContext(activeDocumentUri, workspaceFolders)

----------------------------------------------------------------------------
(* The locators the resolver is tried on *)

PathChars == {"/", "a", "b"}

RECURSIVE PathsOfLen(_)
PathsOfLen(n) ==
    IF n = 0 THEN {""} ELSE {p \o c : p \in PathsOfLen(n - 1), c \in PathChars}

Paths == UNION {PathsOfLen(n) : n \in 0..MaxPathLen}

IsAbsolute(p) == Len(p) > 0 /\ Ch(p, 1) = "/"

\* a locator vscode.Uri accepts: with an authority the path is empty or
\* absolute, without one it does not start with "//"; a file locator has an
\* absolute path
ValidUri(u) ==
    /\ (Len(u.authority) > 0 => (u.path = "" \/ IsAbsolute(u.path)))
    /\ (Len(u.authority) = 0 => ~StartsWith(u.path, "//"))
    /\ (u.scheme = "file" => IsAbsolute(u.path))

AllUris ==
    {u \in {Uri("file", "", p) : p \in Paths}
           \cup {Uri("vscode-remote", "h", p) : p \in Paths}
           \cup {Uri("untitled", "", p) : p \in Paths} : ValidUri(u)}

\* the path's segments: the names between the separators
RECURSIVE Segments(_)
Segments(p) ==
    IF p = "" THEN <<>>
    ELSE IF Ch(p, 1) = "/" THEN Segments(SubSeq(p, 2, Len(p)))
    ELSE LET nxt == IndexOfFrom(p, "/", 1)
             n   == IF nxt = 0 THEN Len(p) ELSE nxt - 1
         IN  <<SubSeq(p, 1, n)>> \o Segments(SubSeq(p, n + 1, Len(p)))

\* The host's file systems are rooted hierarchies: a stat settles with a type
\* only for an absolute path of a scheme that has a file system (an unsaved
\* buffer has none), and only something below the root can be a file.
StatOutcomes(u) ==
    IF u.scheme = "untitled" \/ ~IsAbsolute(u.path) THEN {StatThrows}
    ELSE IF Segments(u.path) = <<>>
         THEN {StatThrows} \cup {s \in StatTypes : IsDirectoryType(s.type)}
    ELSE {StatThrows} \cup StatTypes

SampleDocuments ==
    {NoUri, Uri("file", "", "/a/b"), Uri("untitled", "", "a")}

WorkspaceRoots ==
    {Uri("file", "", "/a"), Uri("vscode-remote", "h", "/b")}

FolderLists ==
    {<<>>} \cup {<<w>> : w \in WorkspaceRoots}
           \cup {f \in {<<w, v>> : w \in WorkspaceRoots, v \in WorkspaceRoots} : f[1] # f[2]}

NoResolve == [contextResource |-> NoUri, stat |-> StatThrows, activeDocument |-> NoUri,
              workspaceFolders |-> <<>>, called |-> FALSE, result |-> Pending]

ResolveInput(c, s, d, f) ==
    [contextResource |-> c, stat |-> s, activeDocument |-> d,
     workspaceFolders |-> f, called |-> FALSE, result |-> Pending]

\* with a context every locator and every stat outcome of it is tried, without
\* one every active document
ResolveInputs ==
    {ResolveInput(x[1], x[2], d, f) :
        x \in {y \in AllUris \X ({StatThrows} \cup StatTypes) : y[2] \in StatOutcomes(y[1])},
        d \in SampleDocuments, f \in FolderLists}
    \cup {ResolveInput(NoUri, StatThrows, d, f) : d \in AllUris \cup {NoUri}, f \in FolderLists}

\* one call of determineTargetDirectory on the inputs drawn
Resolve ==
    /\ ~rs.called
    /\ rs' = [rs EXCEPT !.called = TRUE,
                        !.result = DetermineTargetDirectory(rs.contextResource, rs.stat,
                                       rs.activeDocument, rs.workspaceFolders)]
    /\ UNCHANGED <<inv, calls, terminals, activeTerminal, jsDebug, nativeListed, scan, hover>>

----------------------------------------------------------------------------
(* The config document and the cursor check of run-script-at-cursor *)

Whitespace == {" ", "\t", "\r", "\n"}

Letters == {"a", "b", "c", "d", "e", "f", "g", "h", "i", "j", "k", "l", "m",
            "n", "o", "p", "q", "r", "s", "t", "u", "v", "w", "x", "y", "z"}
UpperLetters == {"A", "B", "C", "D", "E", "F", "G", "H", "I", "J", "K", "L", "M",
                 "N", "O", "P", "Q", "R", "S", "T", "U", "V", "W", "X", "Y", "Z"}
Digits == {"0", "1", "2", "3", "4", "5", "6", "7", "8", "9"}

\* \w of a regular expression
WordChars == Letters \cup UpperLetters \cup Digits \cup {"_"}

\* the first index at or after from that holds no whitespace (\s*), Len + 1
\* when there is none
SkipWs(t, from) ==
    IF \E k \in from..Len(t) : Ch(t, k) \notin Whitespace
    THEN CHOOSE k \in from..Len(t) :
             Ch(t, k) \notin Whitespace /\ \A m \in from..(k-1) : Ch(t, m) \in Whitespace
    ELSE Len(t) + 1

NoMatch == [matched |-> FALSE, name |-> "", command |-> ""]

\* line.match(/^\s*"([^"]+)"\s*:\s*"([^"]+)"/)
ScriptMatch(line) ==
    LET q1 == SkipWs(line, 1)
        q2 == IndexOfFrom(line, "\"", q1 + 1)
        c  == SkipWs(line, q2 + 1)
        q3 == SkipWs(line, c + 1)
        q4 == IndexOfFrom(line, "\"", q3 + 1)
    IN  IF /\ Ch(line, q1) = "\"" /\ q2 > q1 + 1
           /\ Ch(line, c) = ":"
           /\ Ch(line, q3) = "\"" /\ q4 > q3 + 1
        THEN [matched |-> TRUE, name |-> SubSeq(line, q1 + 1, q2 - 1),
              command |-> SubSeq(line, q3 + 1, q4 - 1)]
        ELSE NoMatch

\* does "(\w+)"\s*:\s*\{[^}]*$ match t starting at position s
SectionMatchAt(t, s) ==
    LET e == IF \E k \in (s+1)..Len(t) : Ch(t, k) \notin WordChars
             THEN CHOOSE k \in (s+1)..Len(t) :
                      Ch(t, k) \notin WordChars /\ \A m \in (s+1)..(k-1) : Ch(t, m) \in WordChars
             ELSE Len(t) + 1
        c == SkipWs(t, e + 1)
        b == SkipWs(t, c + 1)
    IN  /\ Ch(t, s) = "\"" /\ e > s + 1 /\ Ch(t, e) = "\""
        /\ Ch(t, c) = ":" /\ Ch(t, b) = "{"
        /\ \A m \in (b+1)..Len(t) : Ch(t, m) # "}"

\* the key captured by textBeforeCursor.match(/"(\w+)"\s*:\s*\{[^}]*$/): that
\* of the leftmost match, "" when nothing matches
LastSectionMatch(t) ==
    LET starts == {s \in 1..Len(t) : SectionMatchAt(t, s)}
    IN  IF starts = {} THEN ""
        ELSE LET s == CHOOSE x \in starts : \A y \in starts : x <= y
             IN  SubSeq(t, s + 1, IndexOfFrom(t, "\"", s + 1) - 1)

\* document.getText(): the lines joined by line breaks
RECURSIVE JoinLines(_)
JoinLines(lines) ==
    IF Len(lines) = 0 THEN ""
    ELSE IF Len(lines) = 1 THEN lines[1]
    ELSE lines[1] \o "\n" \o JoinLines(Tail(lines))

\* document.offsetAt(position): line is counted from 1 here, character from 0
RECURSIVE OffsetAt(_, _, _)
OffsetAt(lines, line, character) ==
    IF line = 1 THEN character
    ELSE Len(lines[1]) + 1 + OffsetAt(Tail(lines), line - 1, character)

PackageJsonLines ==
    << "{",
       "  \"name\": \"demo\",",
       "  \"scripts\": {",
       "    \"build\": \"tsc -p .\",",
       "    \"test\": \"jest\"",
       "  },",
       "  \"dependencies\": {",
       "    \"lodash\": \"4.0.0\"",
       "  }",
       "}" >>

ProjectDir == Uri("file", "", "/p")
RemoteProjectDir == Uri("vscode-remote", "h", "/p")
PackageJsonUri == Uri("file", "", "/p/package.json")
RemotePackageJsonUri == Uri("vscode-remote", "h", "/p/package.json")
ScriptFileUri == Uri("file", "", "/p/a.js")
UntitledUri == Uri("untitled", "", "Untitled-1")
MissingUri == Uri("file", "", "/gone")

\* the directories and files of the host's file systems
Directories == {Uri("file", "", "/"), ProjectDir, Uri("vscode-remote", "h", "/"), RemoteProjectDir}
Files == {PackageJsonUri, ScriptFileUri, RemotePackageJsonUri}

\* vscode.workspace.fs.stat on these file systems
HostStat(u) ==
    IF u \in Directories THEN StatType(FileTypeDirectory)
    ELSE IF u \in Files THEN StatType(FileTypeFile)
    ELSE StatThrows

\* document.fileName
FileName(u) == IF u.scheme = "file" THEN FsPath(u) ELSE u.path

NoEditor == [uri |-> NoUri, lines |-> <<>>]

\* what vscode.window.activeTextEditor can be when a handler starts
Editors ==
    { NoEditor,
      [uri |-> PackageJsonUri, lines |-> PackageJsonLines],
      [uri |-> ScriptFileUri, lines |-> <<"  \"start\": \"node a.js\"">>],
      [uri |-> UntitledUri, lines |-> <<"">>] }

OpenContexts == {NoUri, ProjectDir, PackageJsonUri, MissingUri}

WorkspaceFolderLists == {<<>>, <<ProjectDir, RemoteProjectDir>>}

\* the documents the line decorations of run-named-script are clicked in
LensDocuments == {RemotePackageJsonUri}

ScriptNames == {"build", "test"}

Valid(name, command, dir) ==
    [ok |-> TRUE, err |-> "none", scriptName |-> name, scriptCommand |-> command,
     packageDir |-> dir]
Invalid(e) ==
    [ok |-> FALSE, err |-> e, scriptName |-> "", scriptCommand |-> "", packageDir |-> NoUri]

ValidateCursor_SectionFirst(editor, line, character) ==
    IF editor = NoEditor THEN Invalid("NoActiveEditor")
    ELSE IF PosixBasename(FileName(editor.uri)) # "package.json" THEN Invalid("NotPackageJson")
    ELSE LET scriptMatch == ScriptMatch(editor.lines[line])
             text == JoinLines(editor.lines)
             cursorOffset == OffsetAt(editor.lines, line, character)
             textBeforeCursor == SubSeq(text, 1, cursorOffset)
         IN  IF LastSectionMatch(textBeforeCursor) # "scripts"
             THEN Invalid("NotInScriptsSection")
             ELSE IF ~scriptMatch.matched THEN Invalid("NotAScriptLine")
             ELSE Valid(scriptMatch.name, scriptMatch.command, GetParentDirectoryUri(editor.uri))

\* runNpmScriptInDebugTerminal up to its call of openJsDebugTerminalWithCwd:
\* the four validations, then the script name and the package directory
ValidateCursor(editor, line, character) ==
    IF editor = NoEditor THEN Invalid("NoActiveEditor")
    ELSE IF PosixBasename(FileName(editor.uri)) # "package.json" THEN Invalid("NotPackageJson")
    ELSE LET scriptMatch == ScriptMatch(editor.lines[line])
             text == JoinLines(editor.lines)
             cursorOffset == OffsetAt(editor.lines, line, character)
             textBeforeCursor == SubSeq(text, 1, cursorOffset)
         IN  IF ~scriptMatch.matched THEN Invalid("NotAScriptLine")
             ELSE IF LastSectionMatch(textBeforeCursor) # "scripts"
                  THEN Invalid("NotInScriptsSection")
             ELSE Valid(scriptMatch.name, scriptMatch.command, GetParentDirectoryUri(editor.uri))

----------------------------------------------------------------------------
(* The scanner of the line decorations: NpmScriptCodeLensProvider *)

\* does q occur in s at position k
StartsWithAt(s, k, q) ==
    k >= 1 /\ k + Len(q) - 1 <= Len(s) /\ SubSeq(s, k, k + Len(q) - 1) = q

\* text.split('\n')
RECURSIVE SplitLines(_)
SplitLines(t) ==
    LET n == IndexOfFrom(t, "\n", 1)
    IN  IF n = 0 THEN <<t>>
        ELSE <<SubSeq(t, 1, n - 1)>> \o SplitLines(SubSeq(t, n + 1, Len(t)))

\* what JSON.parse makes of a value, as far as the truth test and typeof of
\* the source tell values apart
JsonFalsy == {"undefined", "null", "false", "zero", "emptyString"}
JsonTypeofObject == {"object", "array", "null"}

JsonFail == [ok |-> FALSE, next |-> 0, kind |-> "none", scripts |-> "undefined"]
JsonVal(next, kind, scripts) == [ok |-> TRUE, next |-> next, kind |-> kind, scripts |-> scripts]

\* the characters that may follow a backslash in a string (\u is not used by
\* the documents tried)
JsonEscapes == {"\"", "\\", "/", "b", "f", "n", "r", "t"}

\* the index of the quote that closes the string whose inside starts at k, 0
\* when the string is not well formed
RECURSIVE JsonStringEnd(_, _)
JsonStringEnd(t, k) ==
    IF k > Len(t) THEN 0
    ELSE IF Ch(t, k) = "\"" THEN k
    ELSE IF Ch(t, k) = "\\"
         THEN (IF Ch(t, k + 1) \in JsonEscapes THEN JsonStringEnd(t, k + 2) ELSE 0)
    ELSE IF Ch(t, k) \in {"\n", "\r", "\t"} THEN 0
    ELSE JsonStringEnd(t, k + 1)

\* the first index at or after from that holds no digit
SkipDigits(t, from) ==
    IF \E k \in from..Len(t) : Ch(t, k) \notin Digits
    THEN CHOOSE k \in from..Len(t) :
             Ch(t, k) \notin Digits /\ \A m \in from..(k-1) : Ch(t, m) \in Digits
    ELSE Len(t) + 1

\* a number at p: an optional sign, digits without a leading zero, an optional
\* fraction
JsonNumber(t, p) ==
    LET d == IF Ch(t, p) = "-" THEN p + 1 ELSE p
        e == SkipDigits(t, d)
        f == IF Ch(t, e) = "." THEN SkipDigits(t, e + 1) ELSE e
    IN  IF e = d \/ (e > d + 1 /\ Ch(t, d) = "0") \/ (Ch(t, e) = "." /\ f = e + 1)
        THEN JsonFail
        ELSE JsonVal(f, IF \A m \in d..(f-1) : Ch(t, m) \in {"0", "."} THEN "zero" ELSE "number",
                     "undefined")

\* JSON.parse, by recursive descent: the value that starts at or after p0, the
\* index after it, and for a mapping the kind of its member "scripts" (the last
\* one when the key is repeated)
RECURSIVE JsonValue(_, _), JsonMembers(_, _, _), JsonElements(_, _)
JsonValue(t, p0) ==
    LET p == SkipWs(t, p0)
        c == Ch(t, p)
    IN  IF c = "{"
        THEN (IF Ch(t, SkipWs(t, p + 1)) = "}"
              THEN JsonVal(SkipWs(t, p + 1) + 1, "object", "undefined")
              ELSE JsonMembers(t, SkipWs(t, p + 1), "undefined"))
        ELSE IF c = "["
        THEN (IF Ch(t, SkipWs(t, p + 1)) = "]"
              THEN JsonVal(SkipWs(t, p + 1) + 1, "array", "undefined")
              ELSE JsonElements(t, p + 1))
        ELSE IF c = "\""
        THEN LET e == JsonStringEnd(t, p + 1)
             IN  IF e = 0 THEN JsonFail
                 ELSE JsonVal(e + 1, IF e = p + 1 THEN "emptyString" ELSE "string", "undefined")
        ELSE IF StartsWithAt(t, p, "true") THEN JsonVal(p + 4, "true", "undefined")
        ELSE IF StartsWithAt(t, p, "false") THEN JsonVal(p + 5, "false", "undefined")
        ELSE IF StartsWithAt(t, p, "null") THEN JsonVal(p + 4, "null", "undefined")
        ELSE IF c \in Digits \cup {"-"} THEN JsonNumber(t, p)
        ELSE JsonFail

\* the members of a mapping from the key at p on, up to its closing brace
JsonMembers(t, p, scripts) ==
    IF Ch(t, p) # "\"" THEN JsonFail
    ELSE LET e == JsonStringEnd(t, p + 1)
         IN  IF e = 0 THEN JsonFail
             ELSE LET key == SubSeq(t, p + 1, e - 1)
                      c == SkipWs(t, e + 1)
                  IN  IF Ch(t, c) # ":" THEN JsonFail
                      ELSE LET v == JsonValue(t, c + 1)
                           IN  IF ~v.ok THEN JsonFail
                               ELSE LET s2 == IF key = "scripts" THEN v.kind ELSE scripts
                                        d == SkipWs(t, v.next)
                                    IN  IF Ch(t, d) = "}" THEN JsonVal(d + 1, "object", s2)
                                        ELSE IF Ch(t, d) = ","
                                        THEN JsonMembers(t, SkipWs(t, d + 1), s2)
                                        ELSE JsonFail

\* the elements of a list from position p on, up to its closing bracket
JsonElements(t, p) ==
    LET v == JsonValue(t, p)
    IN  IF ~v.ok THEN JsonFail
        ELSE LET d == SkipWs(t, v.next)
             IN  IF Ch(t, d) = "]" THEN JsonVal(d + 1, "array", "undefined")
                 ELSE IF Ch(t, d) = "," THEN JsonElements(t, d + 1)
                 ELSE JsonFail

\* JSON.parse(text): one value, and only whitespace around it
JsonParse(text) ==
    LET v == JsonValue(text, 1)
    IN  IF v.ok /\ SkipWs(text, v.next) = Len(text) + 1 THEN v ELSE JsonFail

\* line.match(/^\s*"scripts"\s*:\s*\{/)
EnterMatch(line) ==
    LET q == SkipWs(line, 1)
        c == SkipWs(line, q + 9)
    IN  /\ StartsWithAt(line, q, "\"scripts\"")
        /\ Ch(line, c) = ":"
        /\ Ch(line, SkipWs(line, c + 1)) = "{"

\* line.match(/^\s*\}/)
ExitMatch(line) == Ch(line, SkipWs(line, 1)) = "}"

Declaration(name, command, lineNum, length) ==
    [name |-> name, command |-> command, line |-> lineNum, length |-> length]

\* the loop over the lines, from lineNum (counted from 0) on: the
\* declarations it finds, in the order of the lines
RECURSIVE ScanFrom(_, _, _)
ScanFrom(lines, lineNum, inScriptsSection) ==
    IF lineNum >= Len(lines) THEN <<>>
    ELSE LET line == lines[lineNum + 1]
             scriptMatch == ScriptMatch(line)
         IN  IF EnterMatch(line) THEN ScanFrom(lines, lineNum + 1, TRUE)
             ELSE IF inScriptsSection /\ ExitMatch(line) THEN ScanFrom(lines, lineNum + 1, FALSE)
             ELSE IF inScriptsSection /\ scriptMatch.matched
                  THEN <<Declaration(scriptMatch.name, scriptMatch.command, lineNum, Len(line))>>
                       \o ScanFrom(lines, lineNum + 1, TRUE)
             ELSE ScanFrom(lines, lineNum + 1, inScriptsSection)

RunNpmScriptByNameCommand == "openJsDebugTerminalHere.runNpmScriptByName"

\* new vscode.CodeLens(range, {command, arguments})
CodeLens(uri, d, useDebugTerminal) ==
    [startLine |-> d.line, startCharacter |-> 0, endLine |-> d.line, endCharacter |-> d.length,
     command |-> RunNpmScriptByNameCommand,
     documentUri |-> uri, scriptName |-> d.name, scriptCommand |-> d.command,
     useDebugTerminal |-> useDebugTerminal]

LensesFor_DebugOnly(uri, d) == <<CodeLens(uri, d, TRUE)>>

\* the two line decorations of a declaration: run, then debug
LensesFor(uri, d) == <<CodeLens(uri, d, FALSE), CodeLens(uri, d, TRUE)>>

RECURSIVE LensesOf(_, _)
LensesOf(uri, ds) ==
    IF Len(ds) = 0 THEN <<>> ELSE LensesFor(uri, ds[1]) \o LensesOf(uri, Tail(ds))

\* the declarations provideCodeLenses finds: none for another file, for a
\* text JSON.parse rejects, and for a document whose "scripts" is falsy or no
\* object; else those of the loop over the lines
ScanDeclarations(uri, text) ==
    IF PosixBasename(FileName(uri)) # "package.json" THEN <<>>
    ELSE LET packageJson == JsonParse(text)
         IN  IF ~packageJson.ok THEN <<>>
             ELSE IF packageJson.scripts \in JsonFalsy
                     \/ packageJson.scripts \notin JsonTypeofObject THEN <<>>
             ELSE ScanFrom(SplitLines(text), 0, FALSE)

\* provideCodeLenses(document): two line decorations for each declaration
ProvideCodeLenses(uri, text) == LensesOf(uri, ScanDeclarations(uri, text))

----------------------------------------------------------------------------
(* The documents the scanner and the cursor check are tried on *)

\* a member of the scripts mapping, as written between the quotes
Entry(name, command) == [name |-> name, command |-> command]

ScriptEntries ==
    { Entry("build", "tsc -p ."),
      Entry("test", "echo \\\"no test\\\" && exit 1"),
      Entry("fmt", "echo ${X}"),
      Entry("noop", "") }

\* the lists of up to n entries with different names
RECURSIVE EntryListsUpTo(_)
EntryListsUpTo(n) ==
    IF n = 0 THEN {<<>>}
    ELSE EntryListsUpTo(n - 1) \cup
         {es \in {Append(x, e) : x \in EntryListsUpTo(n - 1), e \in ScriptEntries} :
             /\ Len(es) = n
             /\ \A j, k \in 1..Len(es) : j # k => es[j].name # es[k].name}

EntryLists == EntryListsUpTo(MaxEntries)

\* how the scripts mapping is laid out over the lines
Layouts == {"ownLines", "closeShares", "openShares", "oneLine", "nested"}

\* what the member "scripts" of the document is
ScriptsKinds == {"mapping", "absent", "array", "string", "null"}

OtherFileUri == Uri("file", "", "/p/tsconfig.json")

\* a document: the kind and layout of its scripts member, the entries, whether
\* a mapping with a nested "scripts" comes before it and "dependencies" after
\* it, whether the closing brace is there, and the file
Desc(kind, layout, entries, before, after, closed, uri) ==
    [kind |-> kind, layout |-> layout, entries |-> entries, before |-> before,
     after |-> after, closed |-> closed, uri |-> uri]

Descs ==
    {Desc("mapping", l, es, b, a, TRUE, PackageJsonUri) :
        l \in Layouts, es \in EntryLists, b \in BOOLEAN, a \in BOOLEAN}
    \cup {Desc(k, "ownLines", <<>>, b, a, TRUE, PackageJsonUri) :
        k \in ScriptsKinds \ {"mapping"}, b \in BOOLEAN, a \in BOOLEAN}
    \cup {Desc("mapping", "ownLines", es, FALSE, FALSE, FALSE, PackageJsonUri) : es \in EntryLists}
    \cup {Desc("mapping", "ownLines", es, FALSE, FALSE, TRUE, OtherFileUri) : es \in EntryLists}

EntryText(e) == "\"" \o e.name \o "\": \"" \o e.command \o "\""

\* the entries from the k-th on, one per line, separated by commas
RECURSIVE EntryLines(_, _)
EntryLines(es, k) ==
    IF k > Len(es) THEN <<>>
    ELSE <<"    " \o EntryText(es[k]) \o (IF k < Len(es) THEN "," ELSE "")>>
         \o EntryLines(es, k + 1)

\* the entries from the k-th on, on one line
RECURSIVE EntriesInline(_, _)
EntriesInline(es, k) ==
    IF k > Len(es) THEN ""
    ELSE EntryText(es[k]) \o (IF k < Len(es) THEN ", " ELSE "") \o EntriesInline(es, k + 1)

AppendToLast(block, t) == [block EXCEPT ![Len(block)] = @ \o t]

NestedGroupLines(more) ==
    << "    \"group\": {", "      \"deep\": \"x\"", "    }" \o (IF more THEN "," ELSE "") >>

ScriptsOpening == "  \"scripts\": {"

\* the lines of the member "scripts"
ScriptsBlock(d) ==
    CASE d.kind = "array"  -> << "  \"scripts\": [\"lint\"]" >>
      [] d.kind = "string" -> << "  \"scripts\": \"lint\"" >>
      [] d.kind = "null"   -> << "  \"scripts\": null" >>
      [] d.kind = "absent" -> << >>
      [] d.kind = "mapping" ->
           CASE d.layout = "ownLines" ->
                    <<ScriptsOpening>> \o EntryLines(d.entries, 1) \o <<"  }">>
             [] d.layout = "closeShares" ->
                    IF d.entries = <<>> THEN <<ScriptsOpening \o "}">>
                    ELSE AppendToLast(<<ScriptsOpening>> \o EntryLines(d.entries, 1), " }")
             [] d.layout = "openShares" ->
                    IF d.entries = <<>> THEN <<ScriptsOpening \o " }">>
                    ELSE <<ScriptsOpening \o " " \o EntryText(d.entries[1])
                              \o (IF Len(d.entries) > 1 THEN "," ELSE "")>>
                         \o EntryLines(d.entries, 2) \o <<"  }">>
             [] d.layout = "oneLine" ->
                    <<ScriptsOpening \o " " \o EntriesInline(d.entries, 1) \o " }">>
             [] d.layout = "nested" ->
                    <<ScriptsOpening>> \o NestedGroupLines(d.entries # <<>>)
                        \o EntryLines(d.entries, 1) \o <<"  }">>

NameBlock == << "  \"name\": \"demo\"" >>

ConfigBlock ==
    << "  \"config\": {", "    \"scripts\": {", "      \"inner\": \"x\"", "    }", "  }" >>

DependenciesBlock ==
    << "  \"dependencies\": {", "    \"lodash\": \"4.0.0\"", "  }" >>

\* the members of the document, each a block of lines
Blocks(d) ==
    LET all == << NameBlock,
                  IF d.before THEN ConfigBlock ELSE <<>>,
                  ScriptsBlock(d),
                  IF d.after THEN DependenciesBlock ELSE <<>> >>
    IN  SelectSeq(all, LAMBDA b : b # <<>>)

\* the blocks one after the other, separated by commas
RECURSIVE BlockLines(_)
BlockLines(bs) ==
    IF Len(bs) = 0 THEN <<>>
    ELSE IF Len(bs) = 1 THEN bs[1]
    ELSE AppendToLast(bs[1], ",") \o BlockLines(Tail(bs))

\* document.getText() of the document d describes, line by line
DocLines(d) ==
    <<"{">> \o BlockLines(Blocks(d)) \o (IF d.closed THEN <<"}">> ELSE <<>>)

NoDesc == Desc("absent", "ownLines", <<>>, FALSE, FALSE, TRUE, NoUri)

NoScan == [desc |-> NoDesc, uri |-> NoUri, lines |-> <<>>,
           scanned |-> FALSE, lenses |-> <<>>,
           checked |-> FALSE, line |-> 0, character |-> 0, cursor |-> Invalid("none")]

ScanInput(d) == [NoScan EXCEPT !.desc = d, !.uri = d.uri, !.lines = DocLines(d)]

\* the host asks the provider for the line decorations of the document
Scan ==
    /\ ~scan.scanned
    /\ scan' = [scan EXCEPT !.scanned = TRUE,
                            !.lenses = ProvideCodeLenses(scan.uri, JoinLines(scan.lines))]
    /\ UNCHANGED <<inv, calls, terminals, activeTerminal, jsDebug, nativeListed, rs, hover>>

\* run-script-at-cursor up to its call of the chain, with the document in the
\* active editor and the cursor on some line, at its start or its end
CheckCursor ==
    /\ ~scan.checked
    /\ \E line \in 1..Len(scan.lines) : \E character \in {0, Len(scan.lines[line])} :
        scan' = [scan EXCEPT !.checked = TRUE, !.line = line, !.character = character,
                             !.cursor = ValidateCursor([uri |-> scan.uri, lines |-> scan.lines],
                                                       line, character)]
    /\ UNCHANGED <<inv, calls, terminals, activeTerminal, jsDebug, nativeListed, rs, hover>>

----------------------------------------------------------------------------
(* The hover option: setupNpmScriptHoverControl *)

Applications == 1..MaxApplications

\* an application of the option: where it is, what it read, the applications
\* that had finished when it started, and what started it
IdleApplication == [pc |-> "idle", option |-> FALSE, current |-> "unread", after |-> {},
                    startedBy |-> "none"]

\* the option of this extension, the values of npm.scriptHover in the user
\* settings and in the workspace settings, the applications, the writes to
\* npm.scriptHover in their order, and the notices shown
NoHover == [option |-> FALSE, userValue |-> "unset", workspaceValue |-> "unset",
            app |-> [a \in Applications |-> IdleApplication],
            writes |-> <<>>, notices |-> 0]

SettingValues == {"unset", "true", "false"}

\* npmConfig.get('scriptHover'): the workspace value when there is one, else
\* the user value, else the default of the setting
EffectiveScriptHover(h) ==
    IF h.workspaceValue # "unset" THEN h.workspaceValue
    ELSE IF h.userValue # "unset" THEN h.userValue
    ELSE "default"

\* applyNpmScriptHoverSetting up to its await: the option is read, and when it
\* is set and npm.scriptHover is not false the update is called
ApplicationStart(h, a) ==
    LET disableNativeHover == h.option
        currentScriptHover == IF disableNativeHover THEN EffectiveScriptHover(h) ELSE "unread"
        finished == {b \in Applications : h.app[b].pc = "done"}
    IN  [h EXCEPT !.app[a] =
            [pc |-> IF disableNativeHover /\ currentScriptHover # "false"
                    THEN "await_update" ELSE "done",
             option |-> disableNativeHover, current |-> currentScriptHover,
             after |-> finished, startedBy |-> "activation"]]

OptionKey == "openJsDebugTerminalHere.disableNativeNpmScriptHover"
ScriptHoverKey == "npm.scriptHover"

WatcherApplies_AnyKey(key) == TRUE

\* event.affectsConfiguration(...) in the watcher
WatcherApplies(key) == key = OptionKey

\* the watcher's handler for a change of key: when it applies, the option is
\* applied by application a and the notice is shown
WatcherHandles(h, key, a) ==
    IF WatcherApplies(key)
    THEN [ApplicationStart(h, a) EXCEPT !.notices = @ + 1, !.app[a].startedBy = key]
    ELSE h

\* setupNpmScriptHoverControl at activation: the option is applied once
ActivationApplies ==
    /\ hover.app[1].pc = "idle"
    /\ hover' = ApplicationStart(hover, 1)
    /\ UNCHANGED <<inv, calls, terminals, activeTerminal, jsDebug, nativeListed, rs, scan>>

\* the option is changed in some settings file (its effective value may stay
\* the same): the watcher applies it and shows the notice (a reload the user
\* asks for from the notice ends the run and is not followed)
OptionChanges ==
    /\ \E a \in Applications \ {1} :
        /\ hover.app[a].pc = "idle" /\ hover.app[a - 1].pc # "idle"
        /\ \E v \in BOOLEAN :
            hover' = WatcherHandles([hover EXCEPT !.option = v], OptionKey, a)
    /\ UNCHANGED <<inv, calls, terminals, activeTerminal, jsDebug, nativeListed, rs, scan>>

\* npmConfig.update('scriptHover', false, ConfigurationTarget.Global) settles:
\* false is in the user settings, and the change of npm.scriptHover reaches
\* the watcher
UpdateSettles(a) ==
    /\ hover.app[a].pc = "await_update"
    /\ LET written == [hover EXCEPT !.app[a].pc = "done",
                                    !.userValue = "false",
                                    !.writes = Append(@, [by |-> a, value |-> "false"])]
           idle == {b \in Applications : hover.app[b].pc = "idle"}
       IN  IF idle # {}
           THEN hover' = WatcherHandles(written, ScriptHoverKey,
                                        CHOOSE b \in idle : \A c \in idle : b <= c)
           ELSE hover' = written
    /\ UNCHANGED <<inv, calls, terminals, activeTerminal, jsDebug, nativeListed, rs, scan>>

----------------------------------------------------------------------------
(* The handlers and the acquisition chain *)

Invocations == 1..NumInvocations

Idle == [pc |-> "idle", handler |-> "none", contextResource |-> NoUri,
         scriptName |-> "", useDebugTerminal |-> FALSE, cwdUri |-> NoUri,
         command |-> "", error |-> "none"]

InitIdle ==
    /\ inv = [i \in Invocations |-> Idle]
    /\ calls = [i \in Invocations |-> <<>>]

\* a terminal's working directory, given as a locator or as a path string
CwdOfUri(u) == [form |-> "uri", scheme |-> u.scheme, authority |-> u.authority, path |-> u.path]
CwdOfPath(p) == [form |-> "path", scheme |-> "", authority |-> "", path |-> p]

\* a terminal of the host: who made it (0: the user) and how, where, and the
\* text sent to it
Terminal(i, tier, name, cwd, text) ==
    [by |-> i, tier |-> tier, name |-> name, cwd |-> cwd, text |-> text]

\* a text sent to a terminal, and the invocation that sent it
Sent(i, text) == [by |-> i, text |-> text]

\* a terminal the user opened before any handler ran
UserTerminal == Terminal(0, "user", "bash", CwdOfUri(ProjectDir), <<>>)

\* the host calls invocation i made so far include e
Has(i, e) == \E k \in 1..Len(calls[i]) : calls[i][k] = e

\* how often invocation i made the host call e
Count(i, e) == Cardinality({k \in 1..Len(calls[i]) : calls[i][k] = e})

\* the position of the first e among the host calls of i, 0 when none
Pos(i, e) ==
    IF Has(i, e) THEN CHOOSE k \in 1..Len(calls[i]) :
                          calls[i][k] = e /\ \A m \in 1..(k-1) : calls[i][m] # e
    ELSE 0

\* openJsDebugTerminalWithCwd from its entry to its first await: the provider
\* is activated when it is registered and not active, else the pre-step goes
\* on to the profile lazy load
AcquireEntryPc == IF jsDebug = "inactive" THEN "await_activate" ELSE "await_showProfiles"
AcquireEntryCalls ==
    <<"acquire.enter">> \o
    (IF jsDebug = "inactive" THEN <<"activate.call">> ELSE <<"showProfiles.call">>)

\* the caller after its await of openJsDebugTerminalWithCwd: open is done, as
\* is a caller that only acquires; the script handlers wait for the terminal
\* to initialize
AfterAcquirePc(handler) ==
    IF handler \in {"open", "acquire"} THEN "done" ELSE "settle_delay"

\* the handler calls openJsDebugTerminalWithCwd(dir), with no command
CallAcquire(i, rec, dir, before) ==
    /\ inv' = [inv EXCEPT ![i] = [rec EXCEPT !.pc = AcquireEntryPc, !.cwdUri = dir]]
    /\ calls' = [calls EXCEPT ![i] = @ \o before \o AcquireEntryCalls]
    /\ UNCHANGED <<terminals, activeTerminal, jsDebug, nativeListed, rs, scan, hover>>

Abort_ReportsTwice(i, rec, e, before) ==
    /\ inv' = [inv EXCEPT ![i] = [rec EXCEPT !.pc = "done", !.error = e]]
    /\ calls' = [calls EXCEPT ![i] = @ \o before \o <<"showErrorMessage", "showErrorMessage">>]
    /\ UNCHANGED <<terminals, activeTerminal, jsDebug, nativeListed, rs, scan, hover>>

\* the handler's catch block: one error message, and the handler ends
Abort(i, rec, e, before) ==
    /\ inv' = [inv EXCEPT ![i] = [rec EXCEPT !.pc = "done", !.error = e]]
    /\ calls' = [calls EXCEPT ![i] = @ \o before \o <<"showErrorMessage">>]
    /\ UNCHANGED <<terminals, activeTerminal, jsDebug, nativeListed, rs, scan, hover>>

\* openJsDebugTerminalHere.open: with a context resource the stat is awaited
\* first, without one the directory is resolved at once
InvokeOpen(i) ==
    /\ inv[i].pc = "idle"
    /\ \E contextResource \in OpenContexts, editor \in Editors,
          workspaceFolders \in WorkspaceFolderLists :
        LET rec == [inv[i] EXCEPT !.handler = "open", !.contextResource = contextResource]
            r == WithoutContext(editor.uri, workspaceFolders)
        IN  IF contextResource # NoUri
            THEN /\ inv' = [inv EXCEPT ![i] = [rec EXCEPT !.pc = "await_stat"]]
                 /\ UNCHANGED <<calls, terminals, activeTerminal, jsDebug, nativeListed, rs, scan, hover>>
            ELSE IF r.ok THEN CallAcquire(i, rec, r.uri, <<>>)
            ELSE Abort(i, rec, r.err, <<>>)

\* the stat of the context resource settles (the context is not used again)
StatSettles(i) ==
    /\ inv[i].pc = "await_stat"
    /\ LET stat == HostStat(inv[i].contextResource)
           r == AfterStat(inv[i].contextResource, stat)
           rec == [inv[i] EXCEPT !.contextResource = NoUri]
       IN  IF r.ok THEN CallAcquire(i, rec, r.uri, <<>>)
           ELSE Abort(i, rec, r.err, <<>>)

\* openJsDebugTerminalHere.runNpmScript: the cursor is validated, then the
\* chain is entered in the package directory
InvokeRunNpmScript(i) ==
    /\ inv[i].pc = "idle"
    /\ \E editor \in Editors :
       \E line \in (IF editor = NoEditor THEN {1} ELSE 1..Len(editor.lines)) :
       \E character \in (IF editor = NoEditor THEN {0} ELSE {0, Len(editor.lines[line])}) :
        LET rec == [inv[i] EXCEPT !.handler = "runNpmScript"]
            v == ValidateCursor(editor, line, character)
        IN  IF v.ok
            THEN CallAcquire(i, [rec EXCEPT !.scriptName = v.scriptName], v.packageDir, <<>>)
            ELSE Abort(i, rec, v.err, <<>>)

RunInPlainTerminal_ThroughChain(i, rec, packageDir) ==
    CallAcquire(i, rec, packageDir, <<>>)

\* the else branch of runNpmScriptByName: a plain terminal named after the
\* script is created in the package directory, shown, and given the command
RunInPlainTerminal(i, rec, packageDir) ==
    /\ inv' = [inv EXCEPT ![i] = [rec EXCEPT !.pc = "done", !.cwdUri = packageDir]]
    /\ calls' = [calls EXCEPT ![i] = @ \o <<"createTerminal", "show", "sendText">>]
    /\ terminals' = Append(terminals,
           Terminal(i, "plain", "npm: " \o rec.scriptName, CwdOfPath(FsPath(packageDir)),
                    <<Sent(i, "npm run " \o rec.scriptName)>>))
    /\ activeTerminal' = Len(terminals) + 1
    /\ UNCHANGED <<jsDebug, nativeListed, rs, scan, hover>>

\* openJsDebugTerminalHere.runNpmScriptByName: with the debug flag the chain is
\* entered, without it a plain terminal is created, shown and given the command
InvokeRunNpmScriptByName(i) ==
    /\ inv[i].pc = "idle"
    /\ \E documentUri \in LensDocuments, scriptName \in ScriptNames,
          useDebugTerminal \in BOOLEAN :
        LET rec == [inv[i] EXCEPT !.handler = "runNpmScriptByName", !.scriptName = scriptName,
                                  !.useDebugTerminal = useDebugTerminal]
            packageDir == GetParentDirectoryUri(documentUri)
        IN  IF useDebugTerminal
            THEN CallAcquire(i, rec, packageDir, <<>>)
            ELSE RunInPlainTerminal(i, rec, packageDir)

\* openJsDebugTerminalWithCwd returns: its promise is resolved, the handler
\* that awaits it has not resumed yet
Return(i, before) ==
    /\ inv' = [inv EXCEPT ![i].pc = "returned"]
    /\ calls' = [calls EXCEPT ![i] = @ \o before \o <<"acquire.return">>]

\* the handler resumes after its await of openJsDebugTerminalWithCwd; of the
\* chain's host calls only the entry and the return are kept on record
HandlerResumes(i) ==
    /\ inv[i].pc = "returned"
    /\ inv' = [inv EXCEPT ![i].pc = AfterAcquirePc(inv[i].handler)]
    /\ calls' = [calls EXCEPT ![i] = <<"acquire.enter", "acquire.return">>]
    /\ UNCHANGED <<terminals, activeTerminal, jsDebug, nativeListed, rs, scan, hover>>

\* the host's debug terminal, made and focused by a command that completed
HostOpensTerminal(i, tier) ==
    /\ terminals' = Append(terminals,
           Terminal(i, tier, "JavaScript Debug Terminal", CwdOfPath(FsPath(inv[i].cwdUri)), <<>>))
    /\ activeTerminal' = Len(terminals) + 1

\* jsDebugExtension.activate() settles: on success the provider is active and
\* has registered its command, and the settle delay follows; an
\* error is caught by the outer catch of the pre-step, which ends it
ActivateSettles(i) ==
    /\ inv[i].pc = "await_activate"
    /\ \/ /\ inv' = [inv EXCEPT ![i].pc = "delay_1000"]
          /\ calls' = [calls EXCEPT ![i] = @ \o <<"activate.ok">>]
          /\ jsDebug' = "active"
          /\ nativeListed' = TRUE
       \/ /\ inv' = [inv EXCEPT ![i].pc = "await_getCommands"]
          /\ calls' = [calls EXCEPT ![i] = @ \o <<"activate.throw", "getCommands.call">>]
          /\ UNCHANGED <<jsDebug, nativeListed>>
    /\ UNCHANGED <<terminals, activeTerminal, rs, scan, hover>>

\* the 1000 ms after the activation have passed: the profile lazy load is called
Delay1000Elapses(i) ==
    /\ inv[i].pc = "delay_1000"
    /\ inv' = [inv EXCEPT ![i].pc = "await_showProfiles"]
    /\ calls' = [calls EXCEPT ![i] = @ \o <<"showProfiles.call">>]
    /\ UNCHANGED <<terminals, activeTerminal, jsDebug, nativeListed, rs, scan, hover>>

\* workbench.action.terminal.showProfiles settles: on success 500 ms follow, an
\* error is ignored and the command list is asked for
ShowProfilesSettles(i) ==
    /\ inv[i].pc = "await_showProfiles"
    /\ \/ /\ inv' = [inv EXCEPT ![i].pc = "delay_500"]
          /\ calls' = [calls EXCEPT ![i] = @ \o <<"showProfiles.ok">>]
       \/ /\ inv' = [inv EXCEPT ![i].pc = "await_getCommands"]
          /\ calls' = [calls EXCEPT ![i] = @ \o <<"showProfiles.throw", "getCommands.call">>]
    /\ UNCHANGED <<terminals, activeTerminal, jsDebug, nativeListed, rs, scan, hover>>

Delay500Elapses(i) ==
    /\ inv[i].pc = "delay_500"
    /\ inv' = [inv EXCEPT ![i].pc = "await_getCommands"]
    /\ calls' = [calls EXCEPT ![i] = @ \o <<"getCommands.call">>]
    /\ UNCHANGED <<terminals, activeTerminal, jsDebug, nativeListed, rs, scan, hover>>

AfterGetCommands_CallsBothAtOnce(ok, listed) ==
    IF ok /\ listed
    THEN [pc |-> "await_profile",
          calls |-> <<"getCommands.listed", "native.call", "profile.call">>]
    ELSE IF ok
    THEN [pc |-> "await_profile", calls |-> <<"getCommands.unlisted", "profile.call">>]
    ELSE [pc |-> "await_profile", calls |-> <<"getCommands.throw", "profile.call">>]

AfterGetCommands_IgnoresList(ok, listed) ==
    IF ok
    THEN [pc |-> "await_native",
          calls |-> <<IF listed THEN "getCommands.listed" ELSE "getCommands.unlisted",
                      "native.call">>]
    ELSE [pc |-> "await_profile", calls |-> <<"getCommands.throw", "profile.call">>]

\* what follows getCommands: the native command when the list includes it, the
\* named profile when it does not or when getCommands failed
AfterGetCommands(ok, listed) ==
    IF ok /\ listed
    THEN [pc |-> "await_native", calls |-> <<"getCommands.listed", "native.call">>]
    ELSE IF ok
    THEN [pc |-> "await_profile", calls |-> <<"getCommands.unlisted", "profile.call">>]
    ELSE [pc |-> "await_profile", calls |-> <<"getCommands.throw", "profile.call">>]

\* vscode.commands.getCommands(true) settles
GetCommandsSettles(i) ==
    /\ inv[i].pc = "await_getCommands"
    /\ \E ok \in BOOLEAN :
        LET next == AfterGetCommands(ok, nativeListed)
        IN  /\ inv' = [inv EXCEPT ![i].pc = next.pc]
            /\ calls' = [calls EXCEPT ![i] = @ \o next.calls]
    /\ UNCHANGED <<terminals, activeTerminal, jsDebug, nativeListed, rs, scan, hover>>

NativeSucceeds_FallsThrough(i) ==
    /\ inv' = [inv EXCEPT ![i].pc = "await_profile"]
    /\ calls' = [calls EXCEPT ![i] = @ \o <<"native.ok", "profile.call">>]
    /\ HostOpensTerminal(i, "native")

\* the native debug-terminal command completed: the chain returns
NativeSucceeds(i) ==
    /\ Return(i, <<"native.ok">>)
    /\ HostOpensTerminal(i, "native")

NativeFails_Propagates(i) ==
    Abort(i, inv[i], "HostCallFailed", <<"native.throw">>)

\* the native debug-terminal command raised: the named profile is tried
NativeFails(i) ==
    /\ inv' = [inv EXCEPT ![i].pc = "await_profile"]
    /\ calls' = [calls EXCEPT ![i] = @ \o <<"native.throw", "profile.call">>]
    /\ UNCHANGED <<terminals, activeTerminal>>

\* extension.js-debug.createDebuggerTerminal settles
NativeSettles(i) ==
    /\ inv[i].pc = "await_native"
    /\ (NativeSucceeds(i) \/ NativeFails(i))
    /\ UNCHANGED <<jsDebug, nativeListed, rs, scan, hover>>

ProfileSucceeds_JoinsOther(i) ==
    IF \E t \in 1..Len(terminals) : terminals[t].tier = "profile"
    THEN /\ Return(i, <<"profile.ok">>)
         /\ UNCHANGED <<terminals, activeTerminal>>
    ELSE /\ Return(i, <<"profile.ok">>)
         /\ HostOpensTerminal(i, "profile")

\* the named-profile command completed: the chain returns
ProfileSucceeds(i) ==
    /\ Return(i, <<"profile.ok">>)
    /\ HostOpensTerminal(i, "profile")

ProfileFails_NoFallback(i) ==
    /\ Return(i, <<"profile.throw">>)
    /\ UNCHANGED <<terminals, activeTerminal>>

ProfileFails_ReusesFallback(i) ==
    IF \E t \in 1..Len(terminals) : terminals[t].tier = "fallback"
    THEN /\ Return(i, <<"profile.throw", "show", "showInformationMessage">>)
         /\ activeTerminal' = CHOOSE t \in 1..Len(terminals) : terminals[t].tier = "fallback"
         /\ UNCHANGED terminals
    ELSE /\ Return(i, <<"profile.throw", "createTerminal", "show", "showInformationMessage">>)
         /\ terminals' = Append(terminals,
                Terminal(i, "fallback", "JavaScript Debug Terminal (Fallback)",
                         CwdOfUri(inv[i].cwdUri), <<>>))
         /\ activeTerminal' = Len(terminals) + 1

ProfileFails_DropsCommand(i) ==
    /\ Return(i, <<"profile.throw", "createTerminal", "show", "showInformationMessage">>)
    /\ terminals' = Append(terminals,
           Terminal(i, "fallback", "JavaScript Debug Terminal (Fallback)",
                    CwdOfUri(inv[i].cwdUri), <<>>))
    /\ activeTerminal' = Len(terminals) + 1

\* the named-profile command raised: the plain terminal is created in the
\* target directory and shown, the command is sent when one was given, the
\* notice is shown, and the chain returns
ProfileFails(i) ==
    /\ Return(i, <<"profile.throw", "createTerminal", "show">>
                 \o (IF inv[i].command # "" THEN <<"sendText">> ELSE <<>>)
                 \o <<"showInformationMessage">>)
    /\ terminals' = Append(terminals,
           Terminal(i, "fallback", "JavaScript Debug Terminal (Fallback)",
                    CwdOfUri(inv[i].cwdUri),
                    IF inv[i].command # "" THEN <<Sent(i, inv[i].command)>> ELSE <<>>))
    /\ activeTerminal' = Len(terminals) + 1

\* workbench.action.terminal.newWithProfile settles
ProfileSettles(i) ==
    /\ inv[i].pc = "await_profile"
    /\ (ProfileSucceeds(i) \/ ProfileFails(i))
    /\ UNCHANGED <<jsDebug, nativeListed, rs, scan, hover>>

\* the terminal vscode.window.activeTerminal names after the 500 ms
SendTarget(i) == activeTerminal

\* the 500 ms of a script handler have passed: "npm run <name>" is sent to the
\* active terminal, when there is one
SendToActiveTerminal(i) ==
    /\ inv[i].pc = "settle_delay"
    /\ LET t == SendTarget(i)
           text == "npm run " \o inv[i].scriptName
           notice == IF inv[i].handler = "runNpmScript"
                     THEN <<"showInformationMessage">> ELSE <<>>
       IN  IF t # 0
           THEN /\ terminals' = [terminals EXCEPT ![t].text = Append(@, Sent(i, text))]
                /\ calls' = [calls EXCEPT ![i] = @ \o <<"sendText">> \o notice]
           ELSE UNCHANGED <<terminals, calls>>
    /\ inv' = [inv EXCEPT ![i].pc = "done"]
    /\ UNCHANGED <<activeTerminal, jsDebug, nativeListed, rs, scan, hover>>

\* the user focuses another terminal while a script handler waits for its
\* terminal to initialize (the only time the focus is read afterwards)
UserFocusesTerminal ==
    /\ \E i \in DOMAIN inv : inv[i].pc = "settle_delay"
    /\ \E t \in 1..Len(terminals) : t # activeTerminal /\ activeTerminal' = t
    /\ UNCHANGED <<inv, calls, terminals, jsDebug, nativeListed, rs, scan, hover>>

\* the host activates the debug-terminal provider for a reason of its own,
\* which registers the native command
HostActivatesJsDebug ==
    /\ jsDebug = "inactive"
    /\ jsDebug' = "active"
    /\ nativeListed' = TRUE
    /\ UNCHANGED <<inv, calls, terminals, activeTerminal, rs, scan, hover>>

\* a step of the chain, up to the caller's resumption
AcquireStep(i) ==
    \/ ActivateSettles(i)
    \/ Delay1000Elapses(i)
    \/ ShowProfilesSettles(i)
    \/ Delay500Elapses(i)
    \/ GetCommandsSettles(i)
    \/ NativeSettles(i)
    \/ ProfileSettles(i)
    \/ HandlerResumes(i)

\* a step of the chain or of the handler after it
ChainStep(i) ==
    \/ AcquireStep(i)
    \/ SendToActiveTerminal(i)

Step(i) ==
    \/ StatSettles(i)
    \/ ChainStep(i)

\* the user or a line decoration invokes a command; invocations are numbered
\* in the order they start
Invoke(i) ==
    /\ \A j \in 1..(i-1) : inv[j].pc # "idle"
    /\ \/ InvokeOpen(i)
       \/ InvokeRunNpmScript(i)
       \/ InvokeRunNpmScriptByName(i)

\* the user may have a terminal open; a provider that is not installed
\* contributes no command
Init ==
    /\ InitIdle
    /\ \/ terminals = <<>> /\ activeTerminal = 0
       \/ terminals = <<UserTerminal>> /\ activeTerminal = 1
    /\ jsDebug \in {"absent", "inactive", "active"}
    /\ nativeListed \in (IF jsDebug = "absent" THEN {FALSE} ELSE BOOLEAN)
    /\ rs = NoResolve
    /\ scan = NoScan
    /\ hover = NoHover

Next ==
    \/ \E i \in Invocations : Invoke(i)
    \/ \E i \in Invocations : Step(i)
    \/ UserFocusesTerminal
    \/ HostActivatesJsDebug

Spec == Init /\ [][Next]_vars

\* every host call and every delay of an invocation settles
FairSpec == Spec /\ \A i \in Invocations : WF_vars(Step(i))

InitResolve ==
    /\ InitIdle
    /\ terminals = <<>>
    /\ activeTerminal = 0
    /\ jsDebug = "absent"
    /\ nativeListed = FALSE
    /\ rs \in ResolveInputs
    /\ scan = NoScan
    /\ hover = NoHover

NextResolve == Resolve

\* the resolver alone, on every input drawn
SpecResolve == InitResolve /\ [][NextResolve]_vars

PairInvocations == {1, 2}

\* two clicks on line decorations, one after the other, the second possibly
\* while the first is in flight
InvokePair(i) ==
    /\ \A j \in PairInvocations : j < i => inv[j].pc # "idle"
    /\ InvokeRunNpmScriptByName(i)

InitPair ==
    /\ inv = [i \in PairInvocations |-> Idle]
    /\ calls = [i \in PairInvocations |-> <<>>]
    /\ \/ terminals = <<>> /\ activeTerminal = 0
       \/ terminals = <<UserTerminal>> /\ activeTerminal = 1
    /\ jsDebug \in {"absent", "inactive", "active"}
    /\ nativeListed \in (IF jsDebug = "absent" THEN {FALSE} ELSE BOOLEAN)
    /\ rs = NoResolve
    /\ scan = NoScan
    /\ hover = NoHover

NextPair ==
    \/ \E i \in PairInvocations : InvokePair(i)
    \/ \E i \in PairInvocations : ChainStep(i)
    \/ UserFocusesTerminal
    \/ HostActivatesJsDebug

\* two invocations of run-named-script
SpecPair == InitPair /\ [][NextPair]_vars

\* every host call and every delay of the two invocations settles
FairSpecPair == SpecPair /\ \A i \in PairInvocations : WF_vars(ChainStep(i))

\* the arguments openJsDebugTerminalWithCwd is called with: a directory and
\* an optional command (undefined is modelled by "")
AcquireDirs == {ProjectDir, RemoteProjectDir}
AcquireCommands == {"", "npm run build"}

\* a call of openJsDebugTerminalWithCwd(cwdUri, command) by itself
InvokeAcquire(i) ==
    /\ inv[i].pc = "idle"
    /\ \A j \in 1..(i-1) : inv[j].pc # "idle"
    /\ \E cwdUri \in AcquireDirs, command \in AcquireCommands :
        CallAcquire(i, [inv[i] EXCEPT !.handler = "acquire", !.command = command],
                    cwdUri, <<>>)

NextAcquire ==
    \/ \E i \in Invocations : InvokeAcquire(i)
    \/ \E i \in Invocations : AcquireStep(i)
    \/ HostActivatesJsDebug

\* the chain alone, called with and without a command
SpecAcquire == Init /\ [][NextAcquire]_vars

InitScan ==
    /\ InitIdle
    /\ terminals = <<>>
    /\ activeTerminal = 0
    /\ jsDebug = "absent"
    /\ nativeListed = FALSE
    /\ rs = NoResolve
    /\ scan \in {ScanInput(d) : d \in Descs}
    /\ hover = NoHover

NextScan == Scan \/ CheckCursor

\* the scanner and the cursor check alone, on every document drawn
SpecScan == InitScan /\ [][NextScan]_vars

InitHover ==
    /\ InitIdle
    /\ terminals = <<>>
    /\ activeTerminal = 0
    /\ jsDebug = "absent"
    /\ nativeListed = FALSE
    /\ rs = NoResolve
    /\ scan = NoScan
    /\ hover \in {[NoHover EXCEPT !.option = o, !.userValue = u, !.workspaceValue = w] :
                    o \in BOOLEAN, u \in SettingValues, w \in SettingValues}

NextHover ==
    \/ ActivationApplies
    \/ OptionChanges
    \/ \E a \in Applications : UpdateSettles(a)

\* the hover option alone, from every state of the settings
SpecHover == InitHover /\ [][NextHover]_vars

----------------------------------------------------------------------------
(* Claims about the resolver, checked under SpecResolve *)

StatReportsFile(s) == ~s.threw /\ (s.type % 2) = FileTypeFile
StatReportsDirectory(s) == ~s.threw /\ IsDirectoryType(s.type)

\* d is the directory that holds f: same scheme and authority, and the
\* segments of f without the last one
IsParentDirectoryOf(d, f) ==
    /\ d.scheme = f.scheme
    /\ d.authority = f.authority
    /\ Segments(f.path) # <<>>
    /\ Segments(d.path) = SubSeq(Segments(f.path), 1, Len(Segments(f.path)) - 1)

\* C5: a context the stat reports as a file resolves to the directory that
\* holds it, a context it reports as a directory resolves to itself.
C5_FileToParent_DirectoryUnchanged ==
    (rs.called /\ rs.contextResource # NoUri) =>
        /\ StatReportsFile(rs.stat) =>
              rs.result.ok /\ IsParentDirectoryOf(rs.result.uri, rs.contextResource)
        /\ StatReportsDirectory(rs.stat) =>
              rs.result.ok /\ rs.result.uri = rs.contextResource

C5_Witness ==
    /\ rs.called
    /\ rs.contextResource = Uri("vscode-remote", "h", "/a/")
    /\ StatReportsFile(rs.stat)
    /\ rs.result.uri = Uri("vscode-remote", "h", "/")

C7_NoTargetError ==
    (rs.called /\ rs.contextResource = NoUri /\ rs.activeDocument = NoUri
        /\ rs.workspaceFolders = <<>>) =>
            (~rs.result.ok /\ rs.result.err = "NoTarget" /\ rs.result.uri = NoUri)

C7_Witness ==
    /\ rs.called
    /\ rs.contextResource = NoUri /\ rs.activeDocument = NoUri
    /\ rs.workspaceFolders = <<>>
    /\ rs.result.err = "NoTarget"

----------------------------------------------------------------------------
(* Claims about the acquisition chain and the handlers, checked under Spec *)

Entered(i) == Has(i, "acquire.enter")
Returned(i) == Has(i, "acquire.return")

TerminalsBy(i) == {t \in 1..Len(terminals) : terminals[t].by = i}
FallbacksBy(i) == {t \in TerminalsBy(i) : terminals[t].tier = "fallback"}

\* the terminals the chain of invocation i left, by any of its three paths
ChainTerminalsBy(i) == {t \in TerminalsBy(i) : terminals[t].tier # "plain"}

\* how many paths of the chain invocation i took to completion, as recorded
\* in the host calls of the chain
PathsCompleted(i) ==
    Count(i, "native.ok") + Count(i, "profile.ok") + Cardinality(FallbacksBy(i))

\* C1: whatever the host answers, an acquisition that has returned took
\* exactly one path to completion (native command, named profile or plain
\* fallback), and at no time more than one.
C1_ExactlyOnePath ==
    \A i \in Invocations :
        /\ PathsCompleted(i) <= 1
        /\ Cardinality(ChainTerminalsBy(i)) <= 1
        /\ Returned(i) => Cardinality(ChainTerminalsBy(i)) = 1
        /\ inv[i].pc = "returned" => PathsCompleted(i) = 1

C1_Witness ==
    \E i \in Invocations :
        /\ Returned(i)
        /\ Has(i, "getCommands.listed") /\ Has(i, "native.throw")
        /\ Has(i, "profile.throw")
        /\ Cardinality(FallbacksBy(i)) = 1

\* C2: an error of a host call inside the chain never reaches the caller: no
\* error message is shown, the handler records no error, and the handler goes
\* on only after the chain returned.
C2_NeverRaises ==
    \A i \in Invocations :
        Entered(i) =>
            /\ ~Has(i, "showErrorMessage")
            /\ inv[i].error = "none"
            /\ inv[i].pc \in {"returned", "settle_delay", "done"} => Returned(i)

C2_Witness ==
    \E i \in Invocations :
        /\ Has(i, "showProfiles.throw") /\ Has(i, "native.throw") /\ Has(i, "profile.throw")
        /\ Returned(i)
        /\ inv[i].pc = "returned"

TierCalls == {"activate.call", "showProfiles.call", "getCommands.call",
              "native.call", "profile.call", "createTerminal"}

\* the chain of i returned and left a terminal: the host's, or the fallback
Obtained(i) == Returned(i) /\ TerminalsBy(i) # {}

\* C3: when every host call and delay settles, an acquisition that was entered
\* returns with a terminal obtained, and no step of the chain is made twice.
C3_EventuallyReturns ==
    \A i \in Invocations :
        /\ Entered(i) ~> Obtained(i)
        /\ [](\A e \in TierCalls : Count(i, e) <= 1)

C3_Witness ==
    \E i \in Invocations :
        /\ Obtained(i)
        /\ Has(i, "activate.throw") /\ Has(i, "getCommands.throw")
        /\ Has(i, "profile.throw")

\* C4: when the command list did not include the native command at the time
\* it was asked for, the native command is never called by this acquisition
\* and the named profile is attempted.
C4_AbsentCommandNeverCalled ==
    \A i \in Invocations :
        Has(i, "getCommands.unlisted") =>
            /\ ~Has(i, "native.call")
            /\ Has(i, "profile.call")
            /\ Pos(i, "profile.call") = Pos(i, "getCommands.unlisted") + 1

C4_Witness ==
    \E i \in Invocations :
        /\ Has(i, "getCommands.unlisted")
        /\ nativeListed
        /\ Returned(i)

\* the texts invocation i sent, over all terminals
TextsBy(i) ==
    UNION {{<<t, k>> : k \in {m \in 1..Len(terminals[t].text) : terminals[t].text[m].by = i}} :
              t \in 1..Len(terminals)}

\* C8: a handler that aborted showed exactly one error message, never entered
\* the chain, created no terminal and sent no text.
C8_AbortHasNoTerminalEffect ==
    \A i \in Invocations :
        inv[i].error # "none" =>
            /\ inv[i].pc = "done"
            /\ Count(i, "showErrorMessage") = 1
            /\ ~Entered(i)
            /\ TerminalsBy(i) = {}
            /\ TextsBy(i) = {}
            /\ ~Has(i, "createTerminal") /\ ~Has(i, "sendText")

C8_Witness ==
    \E i \in Invocations :
        /\ inv[i].handler = "runNpmScript"
        /\ inv[i].error = "NotInScriptsSection"
        /\ Count(i, "showErrorMessage") = 1

\* C9: the directory every handler passes to the chain is an existing
\* directory.  (Refuted: the directory derived from an unsaved buffer is the
\* buffer's own locator.)
C9_TargetIsExistingDirectory ==
    \A i \in Invocations : Entered(i) => inv[i].cwdUri \in Directories

\* C10: run-named-script with the debug flag sends "npm run <name>" exactly
\* once, to the terminal its own acquisition obtained and to no other.
\* (Refuted: the text goes to whichever terminal is active after the delay.)
C10_TextGoesToAcquiredTerminal ==
    \A i \in Invocations :
        (inv[i].handler = "runNpmScriptByName" /\ Entered(i) /\ inv[i].pc = "done") =>
            /\ Cardinality(TextsBy(i)) = 1
            /\ \A x \in TextsBy(i) :
                  /\ x[1] \in TerminalsBy(i)
                  /\ terminals[x[1]].text[x[2]].text = "npm run " \o inv[i].scriptName

\* C11: run-named-script without the debug flag makes no host call of the
\* debug tiers (no activation, no profile lazy load, no command list, no
\* native command, no named profile): it creates one plain terminal named
\* after the script in the document's parent directory, shows it, and sends
\* "npm run <name>" to that terminal and to no other.
C11_PlainRunBypassesDebugTiers ==
    \A i \in DOMAIN inv :
        (inv[i].handler = "runNpmScriptByName" /\ ~inv[i].useDebugTerminal) =>
            /\ inv[i].pc = "done" /\ inv[i].error = "none"
            /\ calls[i] = <<"createTerminal", "show", "sendText">>
            /\ \E t \in 1..Len(terminals) :
                  /\ TerminalsBy(i) = {t}
                  /\ terminals[t].tier = "plain"
                  /\ terminals[t].name = "npm: " \o inv[i].scriptName
                  /\ inv[i].cwdUri \in {GetParentDirectoryUri(d) : d \in LensDocuments}
                  /\ terminals[t].cwd.path = inv[i].cwdUri.path
                  /\ \E k \in 1..Len(terminals[t].text) :
                        /\ TextsBy(i) = {<<t, k>>}
                        /\ terminals[t].text[k].text = "npm run " \o inv[i].scriptName

C11_Witness ==
    \E i \in DOMAIN inv :
        /\ inv[i].handler = "runNpmScriptByName" /\ ~inv[i].useDebugTerminal
        /\ inv[i].pc = "done"
        /\ jsDebug = "inactive"
        /\ Len(terminals) = 2 /\ activeTerminal = 2

----------------------------------------------------------------------------
(* Claims about the scanner, the line decorations and the cursor check,     *)
(* checked under SpecScan                                                   *)

\* the declarations the line decorations were made for, in their order
Yielded ==
    [k \in 1..(Len(scan.lenses) \div 2) |->
        [name |-> scan.lenses[2 * k - 1].scriptName,
         command |-> scan.lenses[2 * k - 1].scriptCommand,
         line |-> scan.lenses[2 * k - 1].startLine]]

\* the index (from 0) of the line that opens the scripts mapping of d
ScriptsStart(d) == 2 + (IF d.before THEN Len(ConfigBlock) ELSE 0)

\* the index (from 0) of the line the k-th entry of d is on
EntryLineOf(d, k) ==
    CASE d.layout \in {"ownLines", "closeShares"} -> ScriptsStart(d) + k
      [] d.layout = "openShares" -> ScriptsStart(d) + k - 1
      [] d.layout = "oneLine" -> ScriptsStart(d)
      [] d.layout = "nested" -> ScriptsStart(d) + Len(NestedGroupLines(TRUE)) + k

\* the direct entries of the scripts mapping of d as declarations: name and
\* command as written, and the line
DirectEntries(d) ==
    IF d.kind # "mapping" THEN <<>>
    ELSE [k \in 1..Len(d.entries) |->
             [name |-> d.entries[k].name, command |-> d.entries[k].command,
              line |-> EntryLineOf(d, k)]]

\* d is the target config file, and its text is well formed
Parseable(d) == d.closed
IsTargetFile(d) == d.uri = PackageJsonUri

\* C12: for a well-formed document whose scripts mapping has its opening on a
\* line of its own, its entries one per line and its closing brace on a line
\* of its own, the declarations are the entries, in order, each with its
\* name, its command as written and its line.  (Refuted: a command with an
\* escaped quote is cut at the quote, an entry with an empty command is
\* left out.)
C12_OnePerLineYieldsEachEntry ==
    (scan.scanned /\ IsTargetFile(scan.desc) /\ Parseable(scan.desc)
        /\ scan.desc.kind = "mapping" /\ scan.desc.layout = "ownLines"
        /\ ~scan.desc.before) =>
            Yielded = DirectEntries(scan.desc)

\* C13: the scan of a document that is not well formed, has no member
\* "scripts", has one that is no mapping, or is another file, yields nothing.
\* (Refuted: a list passes the typeof test, and the lines are scanned.)
C13_NothingWithoutScriptsMapping ==
    (scan.scanned /\ (~IsTargetFile(scan.desc) \/ ~Parseable(scan.desc)
                        \/ scan.desc.kind # "mapping")) =>
        scan.lenses = <<>>

\* C14: every declaration is a direct entry of the document's scripts
\* mapping.  (Refuted: lines after a closing brace that shares its line,
\* lines of a nested mapping, and lines of a "scripts" mapping nested
\* elsewhere yield declarations.)
C14_OnlyDirectEntries ==
    scan.scanned =>
        \A k \in 1..Len(Yielded) :
            \E j \in 1..Len(DirectEntries(scan.desc)) :
                /\ DirectEntries(scan.desc)[j].line = Yielded[k].line
                /\ DirectEntries(scan.desc)[j].name = Yielded[k].name

\* C15: in a well-formed document with a flat scripts mapping, every entry
\* yields exactly one declaration with its name and its command as written,
\* whatever the layout.  (Refuted: an entry on the opening line, a second
\* entry on a line and an entry with an empty command yield none.)
C15_EveryEntryOnce ==
    (scan.scanned /\ IsTargetFile(scan.desc) /\ Parseable(scan.desc)
        /\ scan.desc.kind = "mapping" /\ scan.desc.layout # "nested") =>
            \A j \in 1..Len(scan.desc.entries) :
                Cardinality({k \in 1..Len(Yielded) :
                    /\ Yielded[k].name = scan.desc.entries[j].name
                    /\ Yielded[k].command = scan.desc.entries[j].command}) = 1

\* the line (from 0) of the entry of "dependencies" in d
DependencyLineOf(d) ==
    2 + (IF d.before THEN Len(ConfigBlock) ELSE 0) + Len(ScriptsBlock(d)) + 1

CursorLineText == scan.lines[scan.line]

\* C16: with the cursor on a line of the shape "name": "command", anywhere on
\* the line: inside the open scripts mapping the check returns the line's name
\* and command, inside "dependencies" it fails with NotInScriptsSection.
\* (Refuted: a closing brace in an entry before the cursor ends the section
\* for the check.)
C16_CursorInScriptsReturnsEntry ==
    (scan.checked /\ IsTargetFile(scan.desc) /\ Parseable(scan.desc)
        /\ ScriptMatch(CursorLineText).matched) =>
            /\ (/\ scan.desc.kind = "mapping" /\ scan.desc.layout = "ownLines"
                /\ \E k \in 1..Len(scan.desc.entries) :
                       EntryLineOf(scan.desc, k) = scan.line - 1) =>
                   /\ scan.cursor.ok
                   /\ scan.cursor.scriptName = ScriptMatch(CursorLineText).name
                   /\ scan.cursor.scriptCommand = ScriptMatch(CursorLineText).command
            /\ (scan.desc.after /\ DependencyLineOf(scan.desc) = scan.line - 1) =>
                   (~scan.cursor.ok /\ scan.cursor.err = "NotInScriptsSection")

\* C17: a cursor line that has not the shape of a script entry is reported as
\* NotAScriptLine, inside the scripts mapping and outside it.
C17_NotAScriptLineFirst ==
    (scan.checked /\ IsTargetFile(scan.desc) /\ ~ScriptMatch(CursorLineText).matched) =>
        (~scan.cursor.ok /\ scan.cursor.err = "NotAScriptLine")

C17_Witness ==
    /\ scan.checked
    /\ scan.cursor.err = "NotAScriptLine"
    /\ scan.desc.kind = "mapping" /\ scan.desc.layout = "ownLines"
    /\ \E k \in 1..Len(scan.desc.entries) :
           /\ EntryLineOf(scan.desc, k) = scan.line - 1
           /\ scan.desc.entries[k].command = ""

\* C18: the line decorations are two for each declaration the scan finds, in
\* the order of the declarations: both on the declaration's line, both
\* invoking run-named-script with the document, the name and the command, the
\* first without the debug flag and the second with it; there are no others.
C18_TwoLensesPerDeclaration ==
    scan.scanned =>
        LET ds == ScanDeclarations(scan.uri, JoinLines(scan.lines))
        IN  /\ Len(scan.lenses) = 2 * Len(ds)
            /\ \A k \in 1..Len(ds) : \A f \in 0..1 :
                 LET lens == scan.lenses[2 * k - 1 + f]
                 IN  /\ lens.startLine = ds[k].line /\ lens.endLine = ds[k].line
                     /\ lens.command = "openJsDebugTerminalHere.runNpmScriptByName"
                     /\ lens.documentUri = scan.uri
                     /\ lens.scriptName = ds[k].name
                     /\ lens.scriptCommand = ds[k].command
                     /\ lens.useDebugTerminal = (f = 1)

C18_Witness ==
    /\ scan.scanned
    /\ Len(scan.lenses) = 4
    /\ scan.lenses[3].scriptName = "build" /\ ~scan.lenses[3].useDebugTerminal
    /\ scan.lenses[4].scriptName = "build" /\ scan.lenses[4].useDebugTerminal

----------------------------------------------------------------------------
(* Claims about the hover option, checked under SpecHover *)

\* application a calls the update
Writes(a) == hover.app[a].pc = "await_update" \/ \E k \in 1..Len(hover.writes) : hover.writes[k].by = a

\* C19: an application writes npm.scriptHover exactly when the option is set
\* and npm.scriptHover is not false already; once an application with the
\* option set has finished, npm.scriptHover is false and no application that
\* starts afterwards writes.  (Refuted: the value is read as merged from all
\* settings files and written to the user settings only.)
C19_ApplyIsIdempotent ==
    \A a \in Applications :
        hover.app[a].pc # "idle" =>
            /\ Writes(a) <=> (hover.app[a].option /\ hover.app[a].current # "false")
            /\ (hover.app[a].pc = "done" /\ hover.app[a].option) =>
                  /\ EffectiveScriptHover(hover) = "false"
                  /\ \A b \in Applications : a \in hover.app[b].after => ~Writes(b)

----------------------------------------------------------------------------
(* Claims about two invocations, checked under SpecPair *)

\* the step keeps every terminal there is: none is closed or replaced, and
\* text is only added to it
TerminalsKept ==
    /\ Len(terminals') >= Len(terminals)
    /\ \A t \in 1..Len(terminals) :
         /\ terminals'[t].by = terminals[t].by
         /\ terminals'[t].tier = terminals[t].tier
         /\ terminals'[t].name = terminals[t].name
         /\ terminals'[t].cwd = terminals[t].cwd
         /\ Len(terminals'[t].text) >= Len(terminals[t].text)
         /\ SubSeq(terminals'[t].text, 1, Len(terminals[t].text)) = terminals[t].text

\* invocation i calls createTerminal in the step
CreatesTerminal(i) == Count(i, "createTerminal")' = Count(i, "createTerminal") + 1

\* C20: no step closes, disposes or reuses a terminal: every terminal stays as
\* it was made, a call of createTerminal adds a new terminal of the caller,
\* and every invocation that reached the plain fallback and every
\* run-named-script without the debug flag has a terminal of its own, so two of
\* them leave two terminals.
C20_TerminalsNeverReused ==
    /\ [](\A i \in DOMAIN inv :
             /\ Has(i, "profile.throw") => Cardinality(FallbacksBy(i)) = 1
             /\ (inv[i].handler = "runNpmScriptByName" /\ ~inv[i].useDebugTerminal) =>
                    Cardinality(TerminalsBy(i)) = 1)
    /\ [][/\ TerminalsKept
          /\ \A i \in DOMAIN inv :
                CreatesTerminal(i) =>
                    /\ Len(terminals') = Len(terminals) + 1
                    /\ terminals'[Len(terminals')].by = i]_vars

C20_Witness ==
    /\ Len(terminals) = 3
    /\ terminals[2].tier = "fallback" /\ terminals[3].tier = "fallback"
    /\ terminals[2].by # terminals[3].by
    /\ terminals[2].name = terminals[3].name /\ terminals[2].cwd = terminals[3].cwd

----------------------------------------------------------------------------
(* Further claims about the resolver, checked under SpecResolve *)

\* the locator the result of the call is derived from
ResolveSource ==
    IF rs.contextResource # NoUri THEN rs.contextResource
    ELSE IF rs.activeDocument # NoUri THEN rs.activeDocument
    ELSE rs.workspaceFolders[1]

\* C21: the directory the resolver returns has the scheme of the locator it
\* was derived from (the context, else the active document, else the first
\* workspace root), for local and for other schemes alike.
C21_SchemePreserved ==
    (rs.called /\ rs.result.ok) => rs.result.uri.scheme = ResolveSource.scheme

C21_Witness ==
    /\ rs.called
    /\ rs.contextResource = Uri("vscode-remote", "h", "/a/b")
    /\ StatReportsFile(rs.stat)
    /\ rs.result.uri = Uri("vscode-remote", "h", "/a")

\* the parent of a path as the rule for other schemes states it: trailing
\* separators are removed, then the last segment and the separator before it;
\* "/" when nothing remains
GenericParentPath(p) ==
    LET q == StripTrailingSlashes(p)
        k == LastIndexOf(q, "/")
        rest == IF k = 0 THEN "" ELSE SubSeq(q, 1, k - 1)
    IN  IF rest = "" THEN "/" ELSE rest

\* C22: for a locator of another scheme than file the derived parent is the
\* path without its trailing separators and without its last segment, "/"
\* when no segment remains.  (Refuted: a path without a separator is returned
\* as it is.)
C22_GenericParentStripsOneSegment ==
    (rs.called /\ rs.contextResource = NoUri /\ rs.activeDocument # NoUri
        /\ rs.activeDocument.scheme # "file") =>
            /\ rs.result.ok
            /\ rs.result.uri.path = GenericParentPath(rs.activeDocument.path)

----------------------------------------------------------------------------
(* Further claims about the acquisition chain, checked under Spec *)

\* the awaited host calls of the chain and the events that settle each
Settles(e) ==
    CASE e = "activate.call" -> {"activate.ok", "activate.throw"}
      [] e = "showProfiles.call" -> {"showProfiles.ok", "showProfiles.throw"}
      [] e = "getCommands.call" -> {"getCommands.listed", "getCommands.unlisted",
                                    "getCommands.throw"}
      [] e = "native.call" -> {"native.ok", "native.throw"}
      [] e = "profile.call" -> {"profile.ok", "profile.throw"}
      [] OTHER -> {}

AwaitedCalls == {"activate.call", "showProfiles.call", "getCommands.call",
                 "native.call", "profile.call"}

\* the event before the first e among the host calls of i
Before(i, e) == IF Pos(i, e) > 1 THEN calls[i][Pos(i, e) - 1] ELSE "none"

\* C23: within one acquisition the tiers are tried one after the other: the
\* named profile is called only right after the native command was found
\* absent (or the command list failed) or the native call raised, the fallback
\* terminal is created only right after the profile call raised, and no host
\* call of the chain is made while an earlier one is pending.
C23_TiersAreSequential ==
    \A i \in DOMAIN inv :
        Entered(i) =>
            /\ Has(i, "profile.call") =>
                   Before(i, "profile.call") \in
                       {"getCommands.unlisted", "getCommands.throw", "native.throw"}
            /\ Has(i, "native.call") => Before(i, "native.call") = "getCommands.listed"
            /\ Has(i, "createTerminal") => Before(i, "createTerminal") = "profile.throw"
            /\ \A k \in 1..(Len(calls[i]) - 1) :
                   calls[i][k] \in AwaitedCalls => calls[i][k + 1] \in Settles(calls[i][k])
            /\ \A e \in AwaitedCalls : Count(i, e) <= 1

C23_Witness ==
    \E i \in DOMAIN inv :
        /\ inv[i].pc = "returned"
        /\ Has(i, "native.throw") /\ Has(i, "profile.throw") /\ Has(i, "createTerminal")
        /\ Pos(i, "native.call") < Pos(i, "native.throw")
        /\ Pos(i, "native.throw") < Pos(i, "profile.call")
        /\ Pos(i, "profile.throw") < Pos(i, "createTerminal")

\* C24: every acquisition attempts the pre-step, and the profile lazy load is
\* called before the command list is asked for, whether or not the activation
\* was requested and whether or not it raised.  (Refuted: an activation that
\* raises ends the pre-step, and the lazy load is not called.)
C24_LazyLoadBeforeCommandList ==
    \A i \in DOMAIN inv :
        Has(i, "getCommands.call") =>
            /\ Has(i, "showProfiles.call")
            /\ Pos(i, "showProfiles.call") < Pos(i, "getCommands.call")

----------------------------------------------------------------------------
(* The chain called with and without a command, checked under SpecAcquire *)

\* the host calls of i from the first e on
From(i, e) == IF Has(i, e) THEN SubSeq(calls[i], Pos(i, e), Len(calls[i])) ELSE <<>>

----------------------------------------------------------------------------
(* Two interleaved acquisitions, checked under FairSpecPair *)

\* the tier the record of host calls of i says completed, "none" while none did
TierReached(i) ==
    IF Has(i, "native.ok") THEN "native"
    ELSE IF Has(i, "profile.ok") THEN "profile"
    ELSE IF Has(i, "createTerminal") THEN "fallback"
    ELSE "none"

\* C26: two acquisitions that interleave at their awaits each run their own
\* tier sequence: each returns, with exactly one completed path and one
\* terminal of its own, of the tier the host's answers to its own calls lead
\* to, whatever the other has done; nothing merges them, two that both
\* reach the fallback leave two terminals.
C26_InterleavedAcquisitionsIndependent ==
    /\ [](\A i \in PairInvocations :
            Entered(i) =>
                /\ Cardinality(ChainTerminalsBy(i)) <= 1
                /\ Returned(i) => Cardinality(ChainTerminalsBy(i)) = 1
                /\ inv[i].pc = "returned" =>
                      /\ PathsCompleted(i) = 1
                      /\ \A t \in ChainTerminalsBy(i) : terminals[t].tier = TierReached(i)
                      /\ \A e \in AwaitedCalls : Count(i, e) <= 1
                      /\ Has(i, "getCommands.call")
                      /\ Has(i, "native.throw") \/ ~Has(i, "getCommands.listed")
                             => Has(i, "profile.call")
                      /\ Has(i, "profile.throw") => Has(i, "createTerminal"))
    /\ []((\A i \in PairInvocations : Returned(i) /\ FallbacksBy(i) # {}) =>
             Cardinality({t \in 1..Len(terminals) : terminals[t].tier = "fallback"}) = 2)
    /\ \A i \in PairInvocations : Entered(i) ~> Returned(i)

C26_Witness ==
    /\ inv[1].pc = "await_profile"
    /\ inv[2].pc = "returned"
    /\ Has(1, "getCommands.unlisted")
    /\ Has(2, "native.ok")
    /\ Pos(2, "acquire.enter") = 1

----------------------------------------------------------------------------
(* Further claims about the hover option, checked under SpecHover *)

\* applications a and b overlap: neither had finished when the other started
Concurrent(a, b) ==
    /\ a # b
    /\ hover.app[a].pc # "idle" /\ hover.app[b].pc # "idle"
    /\ a \notin hover.app[b].after /\ b \notin hover.app[a].after

\* C27: when two applications that both read the option as set overlap, then
\* once both have finished npm.scriptHover is false, and false is the only
\* value ever written.  (Refuted by the defect of C19: the write goes to the
\* user settings, a workspace value of true stays in force.)
C27_ConcurrentApplicationsConverge ==
    /\ \A k \in 1..Len(hover.writes) : hover.writes[k].value = "false"
    /\ \A a, b \in Applications :
          (Concurrent(a, b) /\ hover.app[a].option /\ hover.app[b].option
              /\ hover.app[a].pc = "done" /\ hover.app[b].pc = "done") =>
                  EffectiveScriptHover(hover) = "false"

\* the applications that were started
Started == {a \in Applications : hover.app[a].pc # "idle"}

\* a step that changes npm.scriptHover is the update of an application that
\* read the option as set, and it puts false into the user settings
OnlyApplicationsWrite ==
    /\ hover'.workspaceValue = hover.workspaceValue
    /\ hover'.userValue # hover.userValue =>
          /\ hover'.userValue = "false"
          /\ \E a \in Applications :
                /\ hover.app[a].pc = "await_update" /\ hover.app[a].option
                /\ hover'.app[a].pc = "done"

\* C30: an application that reads the option as not set leaves npm.scriptHover
\* as it is, also after the option went from set to not set (nothing is
\* restored); the write of npm.scriptHover starts no further application; and
\* there are finitely many writes, at most one for each application started by
\* the activation or by a change of the option.
C30_UnsetOptionLeavesSetting ==
    /\ [](\A a \in Started :
            /\ ~hover.app[a].option => ~Writes(a) /\ hover.app[a].current = "unread"
            /\ hover.app[a].startedBy \in {"activation", OptionKey}
            /\ Cardinality({k \in 1..Len(hover.writes) : hover.writes[k].by = a}) <= 1)
    /\ [](/\ Len(hover.writes) <= Cardinality(Started)
          /\ Cardinality(Started) <= 1 + hover.notices
          /\ \A k \in 1..Len(hover.writes) : hover.writes[k].by \in Started)
    /\ [][OnlyApplicationsWrite]_vars

C30_Witness ==
    /\ hover.app[1].option /\ hover.app[1].pc = "done"
    /\ Len(hover.writes) = 1 /\ hover.writes[1].by = 1
    /\ ~hover.option
    /\ hover.app[2].pc = "done" /\ ~hover.app[2].option
    /\ 1 \in hover.app[2].after
    /\ hover.userValue = "false"

----------------------------------------------------------------------------
(* Further claims about two invocations, checked under SpecPair *)

\* how many texts of invocation i terminal t holds
TextsIn(t, i) ==
    Cardinality({k \in 1..Len(terminals[t].text) : terminals[t].text[k].by = i})

\* C28: when script runs on the debug path interleave, or the focus moves
\* during the 500 ms before the send, every terminal still holds the text of
\* the invocation whose acquisition made it, once, and no text of another:
\* none is sent twice, lost, or sent to another invocation's terminal.
\* (Refuted by the defect of C10: the text goes to the terminal that is active
\* when the delay has passed.)
C28_TextReachesOwnTerminal ==
    \A i \in PairInvocations :
        (inv[i].useDebugTerminal /\ Entered(i) /\ inv[i].pc = "done") =>
            \A t \in 1..Len(terminals) :
                TextsIn(t, i) = (IF t \in ChainTerminalsBy(i) THEN 1 ELSE 0)

----------------------------------------------------------------------------
(* The scanner against the cursor check, checked under SpecScan *)

\* the declarations the scan yielded on the cursor's line
YieldedAtCursor == {k \in DOMAIN Yielded : Yielded[k].line = scan.line - 1}

\* C29: for a config document and a line, the scan yields a declaration on the
\* line exactly when run-script-at-cursor with the cursor on the line passes
\* its script-line check and its scripts-section check, and then both give
\* the same name and command.  (Refuted: the scan follows the section line by
\* line from the top of the text and needs the text to parse, the cursor
\* check looks at the text before the cursor for an unclosed "name": {.)
C29_ScannerAndCursorCheckAgree ==
    (scan.scanned /\ scan.checked /\ IsTargetFile(scan.desc)) =>
        /\ YieldedAtCursor # {} <=> scan.cursor.ok
        /\ scan.cursor.ok =>
              \A k \in YieldedAtCursor :
                  /\ Yielded[k].name = scan.cursor.scriptName
                  /\ Yielded[k].command = scan.cursor.scriptCommand

====
